---- MODULE Spec2Model ----
(***************************************************************************)
(* A model of pycoin's Key value type (pycoin/key/Key.py): construction    *)
(* and validation, SEC decoding, the format methods, the lazily filled     *)
(* hash160 cache, signing and verification.                                *)
(*                                                                         *)
(* The collaborators Key.py imports (the curve generator, the SEC codec,   *)
(* the DER codec, hash160, the byte/int conversions, the network profile)  *)
(* are modelled at reduced scale: the curve is y^2 = x^3 + 7 over F_13     *)
(* (a group of prime order 7, secp256k1's equation) and a coordinate is    *)
(* encoded on CoordLen bytes instead of 32.                                *)
(***************************************************************************)
EXTENDS Integers, Sequences, FiniteSets, TLC

VARIABLES keys, last, pc, frame

vars == <<keys, last, pc, frame>>

(***************************************************************************)
(* Bounds of the model.                                                    *)
(***************************************************************************)
MaxKeys == 2
MaxThreads == 2

(***************************************************************************)
(* Python's None, and a value that is not None.                            *)
(***************************************************************************)
None == <<>>
Some(v) == <<v>>
Val(o) == o[1]

Raise(exc) == [kind |-> "raise", val |-> exc]
Return(kind, v) == [kind |-> kind, val |-> v]
Raised(r) == r.kind = "raise"

(***************************************************************************)
(* pycoin.encoding.bytes32: big-endian conversions at the model's width.   *)
(***************************************************************************)
CoordLen == 2
ByteBase == 256

RECURSIVE from_bytes_32(_)
from_bytes_32(b) ==
    IF Len(b) = 0 THEN 0
    ELSE from_bytes_32(SubSeq(b, 1, Len(b) - 1)) * ByteBase + b[Len(b)]

to_bytes_32(v) ==
    [i \in 1..CoordLen |-> (v \div (ByteBase ^ (CoordLen - i))) % ByteBase]

(***************************************************************************)
(* The generator: y^2 = x^3 + CurveA*x + CurveB over F_CurveP, base point  *)
(* (Gx, Gy) of order CurveN.  A point is a pair of coordinates; the point  *)
(* at infinity is the pair (None, None).                                   *)
(***************************************************************************)
CurveP == 13
CurveA == 0
CurveB == 7
CurveN == 7
Gx == 7
Gy == 5

Infinity == <<None, None>>
Point(x, y) == <<Some(x), Some(y)>>
PX(pt) == Val(pt[1])
PY(pt) == Val(pt[2])
BasePoint == Point(Gx, Gy)

order == CurveN

contains_point(x, y) ==
    IF x = None /\ y = None THEN TRUE
    ELSE (Val(y) * Val(y)
            - (Val(x) * Val(x) * Val(x) + CurveA * Val(x) + CurveB)) % CurveP = 0

InvMod(a, m) == CHOOSE b \in 1..(m - 1) : (a * b) % m = 1

PointAdd(p1, p2) ==
    IF p1 = Infinity THEN p2
    ELSE IF p2 = Infinity THEN p1
    ELSE LET x1 == PX(p1) % CurveP
             y1 == PY(p1) % CurveP
             x2 == PX(p2) % CurveP
             y2 == PY(p2) % CurveP
         IN  IF x1 = x2 /\ (y1 + y2) % CurveP = 0 THEN Infinity
             ELSE LET lam == IF x1 = x2
                             THEN ((3 * x1 * x1 + CurveA)
                                      * InvMod((2 * y1) % CurveP, CurveP)) % CurveP
                             ELSE ((y2 - y1)
                                      * InvMod((x2 - x1) % CurveP, CurveP)) % CurveP
                      x3 == (lam * lam - x1 - x2) % CurveP
                      y3 == (lam * (x1 - x3) - y1) % CurveP
                  IN  Point(x3, y3)

RECURSIVE PointMul(_, _)
PointMul(k, pt) ==
    IF k = 0 THEN Infinity ELSE PointAdd(pt, PointMul(k - 1, pt))

\* secret_exponent * generator
GeneratorMul(k) == PointMul(k % CurveN, BasePoint)

\* generator.points_for_x(x)[is_y_odd]: the root of the curve equation with
\* the asked parity, or no point when x has none.
points_for_x(x, is_y_odd) ==
    LET alpha == (x * x * x + CurveA * x + CurveB) % CurveP
        roots == {y \in 1..(CurveP - 1) :
                     /\ (y * y) % CurveP = alpha
                     /\ (y % 2 = 1) = is_y_odd}
    IN  IF roots = {} THEN None
        ELSE Some(Point(x, CHOOSE y \in roots : TRUE))

(***************************************************************************)
(* pycoin.encoding.sec: the public-key byte encoding.                      *)
(***************************************************************************)
is_sec_compressed(s) == Len(s) >= 1 /\ s[1] \in {2, 3}

public_pair_to_sec(public_pair, compressed) ==
    IF compressed
    THEN <<2 + (PY(public_pair) % 2)>> \o to_bytes_32(PX(public_pair))
    ELSE <<4>> \o to_bytes_32(PX(public_pair)) \o to_bytes_32(PY(public_pair))

\* An unknown tag or a wrong length is a decode failure.  The decoder asks
\* the generator for the root of the curve equation (compressed form) or
\* for the curve-membership test (uncompressed form), and a point that
\* fails it is a decode failure too; generator is None when the class binds
\* none, and the decoder then fails on its first use of it.
sec_to_public_pair(s, generator) ==
    IF Len(s) = 1 + 2 * CoordLen /\ s[1] = 4
    THEN IF generator = None THEN Raise("AttributeError")
         ELSE LET pt == Point(from_bytes_32(SubSeq(s, 2, 1 + CoordLen)),
                              from_bytes_32(SubSeq(s, 2 + CoordLen, 1 + 2 * CoordLen)))
              IN  IF ~contains_point(pt[1], pt[2]) THEN Raise("InvalidEncoding")
                  ELSE Return("pair", pt)
    ELSE IF Len(s) = 1 + CoordLen /\ s[1] \in {2, 3}
    THEN IF generator = None THEN Raise("AttributeError")
         ELSE LET pt == points_for_x(from_bytes_32(SubSeq(s, 2, 1 + CoordLen)),
                                     s[1] # 2)
              IN  IF pt = None THEN Raise("InvalidEncoding")
                  ELSE Return("pair", Val(pt))
    ELSE Raise("InvalidEncoding")

(***************************************************************************)
(* class Key                                                               *)
(***************************************************************************)
\* The two classes: Key itself, and a class made by Key.make_subclass.
Classes == {"BoundKey", "Key"}

\* The class attribute _generator: None on Key, bound by make_subclass.
class_generator(class) == IF class = "Key" THEN None ELSE Some("generator")

\* Mutants of the constructor's three checks.
WrongArguments_OnlyNeither(secret_exponent, public_pair) ==
    secret_exponent = None /\ public_pair = None

SecretOutOfRange_OffByOne(s) == s < 1 \/ s > CurveN

BadPublicPair_NoNoneCheck(pair) ==
    IF \E i \in 1..2 : pair[i] = None THEN pair # <<None, None>>
    ELSE ~contains_point(pair[1], pair[2])

\* "[secret_exponent, public_pair].count(None) != 1"
WrongArguments(secret_exponent, public_pair) ==
    Cardinality({i \in 1..2 : <<secret_exponent, public_pair>>[i] = None}) # 1

\* "self._secret_exponent < 1 or self._secret_exponent >= self._generator.order()"
SecretOutOfRange(s) == s < 1 \/ s >= order

\* "(None in self._public_pair) or not self._generator.contains_point(...)"
BadPublicPair(pair) ==
    (\E i \in 1..2 : pair[i] = None) \/ ~contains_point(pair[1], pair[2])

\* Key.__init__: the new Key, or the error raised.
Key_init(class, secret_exponent, public_pair, is_compressed) ==
    IF WrongArguments(secret_exponent, public_pair)
    THEN Raise("ValueError")
    ELSE IF secret_exponent # None /\ SecretOutOfRange(Val(secret_exponent))
    THEN Raise("InvalidSecretExponentError")
    ELSE LET pair == IF secret_exponent # None
                     THEN GeneratorMul(Val(secret_exponent))
                     ELSE public_pair
         IN  IF BadPublicPair(pair)
             THEN Raise("InvalidPublicPairError")
             ELSE Return("Key", [class |-> class,
                                 secret_exponent |-> secret_exponent,
                                 public_pair |-> pair,
                                 is_compressed |-> is_compressed,
                                 hash160_uncompressed |-> None,
                                 hash160_compressed |-> None])

\* Key.from_sec
from_sec(class, s) ==
    LET decoded == sec_to_public_pair(s, class_generator(class))
    IN  IF Raised(decoded) THEN decoded
        ELSE Key_init(class, None, decoded.val, is_sec_compressed(s))

(***************************************************************************)
(* pycoin.encoding.hash.hash160 and hexbytes.b2h, at the model's scale: a  *)
(* digest of HashLen bytes that depends on every byte and on the length.   *)
(***************************************************************************)
HashLen == 5

RECURSIVE WeightedSum(_, _)
WeightedSum(b, i) ==
    IF Len(b) = 0 THEN 0
    ELSE WeightedSum(SubSeq(b, 1, Len(b) - 1), i) + (i + Len(b)) * b[Len(b)]

hash160(b) ==
    [i \in 1..HashLen |-> (WeightedSum(b, i) + 31 * i + Len(b)) % ByteBase]

b2h(b) ==
    [i \in 1..(2 * Len(b)) |->
        IF i % 2 = 1 THEN b[(i + 1) \div 2] \div 16 ELSE b[i \div 2] % 16]

(***************************************************************************)
(* The network profile: text encodings of a blob.                          *)
(***************************************************************************)
Text(fmt, data) == Return("text", [fmt |-> fmt, data |-> data])

wif_for_blob(blob) == Text("wif", blob)
sec_text_for_blob(blob) == Text("sec", b2h(blob))
for_p2pkh(h) == Text("address", h)

Truthy(r) ==
    CASE r.kind = "None" -> FALSE
      [] r.kind = "text" -> Len(r.val.data) > 0
      [] r.kind = "bytes" -> Len(r.val) > 0
      [] OTHER -> TRUE

(***************************************************************************)
(* pycoin.satoshi.der and the generator's ECDSA primitives.                *)
(***************************************************************************)
der_int(v) == <<2, 1, v>>

sigencode_der(r, s) ==
    LET body == der_int(r) \o der_int(s) IN <<48, Len(body)>> \o body

sigdecode_der(sig) ==
    IF Len(sig) < 2 \/ sig[1] # 48 \/ sig[2] # Len(sig) - 2
    THEN Raise("UnexpectedDER")
    ELSE LET body == SubSeq(sig, 3, Len(sig))
         IN  IF Len(body) < 2 \/ body[1] # 2 \/ body[2] < 1
                \/ Len(body) < 2 + body[2]
             THEN Raise("UnexpectedDER")
             ELSE LET r == from_bytes_32(SubSeq(body, 3, 2 + body[2]))
                      rest == SubSeq(body, 3 + body[2], Len(body))
                  IN  IF Len(rest) < 2 \/ rest[1] # 2 \/ rest[2] < 1
                         \/ Len(rest) # 2 + rest[2]
                      THEN Raise("UnexpectedDER")
                      ELSE Return("sig",
                                  <<r, from_bytes_32(SubSeq(rest, 3, Len(rest)))>>)

\* The signature (r, s) for nonce k.
SignWithK(secret_exponent, val, k) ==
    LET r == PX(PointMul(k, BasePoint)) % CurveN
    IN  <<r, (InvMod(k, CurveN) * (val + secret_exponent * r)) % CurveN>>

\* generator.sign: a deterministic nonce, stepped until r and s are nonzero.
generator_sign(secret_exponent, val) ==
    LET k0 == (secret_exponent + val) % (CurveN - 1)
        nonce(d) == 1 + ((k0 + d) % (CurveN - 1))
        good == {d \in 0..(CurveN - 2) :
                    LET rs == SignWithK(secret_exponent, val, nonce(d))
                    IN  rs[1] # 0 /\ rs[2] # 0}
        first == CHOOSE d \in good : \A e \in good : d <= e
    IN  SignWithK(secret_exponent, val, nonce(first))

\* generator.verify
generator_verify(public_pair, val, rs) ==
    LET r == rs[1]
        s == rs[2]
    IN  IF r < 1 \/ r >= CurveN \/ s < 1 \/ s >= CurveN THEN FALSE
        ELSE LET w == InvMod(s, CurveN)
                 pt == PointAdd(PointMul((val * w) % CurveN, BasePoint),
                                PointMul((r * w) % CurveN, public_pair))
             IN  pt # Infinity /\ PX(pt) % CurveN = r

(***************************************************************************)
(* The methods of a Key.  An is_compressed argument is None (use the       *)
(* Key's default) or Some(boolean).  A method that may fill the hash160    *)
(* cache returns the Key after the call beside the value returned.         *)
(***************************************************************************)
Overrides == {None, Some(TRUE), Some(FALSE)}

\* "if is_compressed is None: is_compressed = self.is_compressed()"
Effective(self, is_compressed) ==
    IF is_compressed = None THEN self.is_compressed ELSE Val(is_compressed)

is_private(self) == self.secret_exponent # None

Key_sec(self, is_compressed) ==
    IF self.public_pair = None THEN Return("None", None)
    ELSE Return("bytes",
                public_pair_to_sec(self.public_pair, Effective(self, is_compressed)))

Key_wif(self, is_compressed) ==
    IF self.secret_exponent = None THEN Return("None", None)
    ELSE LET blob == to_bytes_32(Val(self.secret_exponent))
         IN  wif_for_blob(IF Effective(self, is_compressed)
                          THEN blob \o <<1>> ELSE blob)

Key_sec_as_hex(self, is_compressed) ==
    LET s == Key_sec(self, is_compressed)
    IN  IF s.kind = "None" THEN Raise("TypeError") ELSE sec_text_for_blob(s.val)

\* What a cache slot holds, as a returned value.
SlotValue(slot) ==
    IF slot = None THEN Return("None", None) ELSE Return("bytes", Val(slot))

\* The cache slot of a style: _hash160_compressed or _hash160_uncompressed.
Slot(self, c) ==
    IF c THEN self.hash160_compressed ELSE self.hash160_uncompressed

SetSlot(self, c, v) ==
    IF c THEN [self EXCEPT !.hash160_compressed = v]
    ELSE [self EXCEPT !.hash160_uncompressed = v]

\* Mutant: the digest of the Key's default encoding, whatever style is asked.
Digest_DefaultStyle(self, c) == hash160(Key_sec(self, None).val)

\* "hash160(self.sec(is_compressed=is_compressed))"
Digest(self, c) == hash160(Key_sec(self, Some(c)).val)

\* Mutant: the style asked for becomes the Key's default.
Key_hash160_StoresOverride(self, is_compressed) ==
    LET c == Effective(self, is_compressed)
        after == [(IF Slot(self, c) = None
                   THEN SetSlot(self, c, Some(Digest(self, c)))
                   ELSE self) EXCEPT !.is_compressed = c]
    IN  [self |-> after, ret |-> SlotValue(Slot(after, c))]

Key_hash160(self, is_compressed) ==
    LET c == Effective(self, is_compressed)
        after == IF Slot(self, c) = None
                 THEN SetSlot(self, c, Some(Digest(self, c)))
                 ELSE self
    IN  [self |-> after, ret |-> SlotValue(Slot(after, c))]

FingerprintLen == 4

Prefix(b, n) == SubSeq(b, 1, IF Len(b) < n THEN Len(b) ELSE n)

\* "self.hash160(...)[:4]" applied to what hash160 returned.
FingerprintOf(h) ==
    IF h.kind = "bytes" THEN Return("bytes", Prefix(h.val, FingerprintLen))
    ELSE Raise("TypeError")

\* "self._network.address.for_p2pkh(self.hash160(...))"
AddressOf(h) ==
    IF h.kind = "bytes" THEN for_p2pkh(h.val) ELSE Raise("TypeError")

Key_fingerprint(self, is_compressed) ==
    LET h == Key_hash160(self, is_compressed)
    IN  [self |-> h.self, ret |-> FingerprintOf(h.ret)]

Key_address(self, is_compressed) ==
    LET h == Key_hash160(self, is_compressed)
    IN  [self |-> h.self, ret |-> AddressOf(h.ret)]

Key_as_text(self) ==
    IF self.secret_exponent # None /\ Val(self.secret_exponent) # 0
    THEN [self |-> self, ret |-> Key_wif(self, None)]
    ELSE LET sec_hex == Key_sec_as_hex(self, None)
         IN  IF Truthy(sec_hex) THEN [self |-> self, ret |-> sec_hex]
             ELSE Key_address(self, None)

\* Mutant: the copy keeps every field of self.
Key_public_copy_KeepsSecret(self) ==
    Return("Key", [self EXCEPT !.hash160_compressed = None,
                               !.hash160_uncompressed = None])

\* The Key public_copy builds when self is private.
Key_public_copy(self) ==
    Key_init(self.class, None, self.public_pair, self.is_compressed)

Key_sign(self, h) ==
    IF ~is_private(self) THEN Raise("RuntimeError")
    ELSE LET rs == generator_sign(Val(self.secret_exponent), from_bytes_32(h))
         IN  Return("bytes", sigencode_der(rs[1], rs[2]))

Key_verify(self, h, sig) ==
    LET decoded == sigdecode_der(sig)
    IN  IF Raised(decoded) THEN decoded
        ELSE Return("bool",
                    generator_verify(self.public_pair, from_bytes_32(h), decoded.val))

\* "if r._network": __init__ binds every Key to a network, the class's or
\* the current one.
network_bound == TRUE

\* __repr__: r is self when self is public, else a temporary public copy.
Key_repr(self) ==
    LET r == IF is_private(self) THEN Key_public_copy(self).val ELSE self
        t == IF network_bound THEN Key_as_text(r)
             ELSE IF Truthy(Key_sec(r, None))
             THEN [self |-> r, ret |-> Text("hex", b2h(Key_sec(r, None).val))]
             ELSE LET h == Key_hash160(r, None)
                  IN  [self |-> h.self,
                       ret |-> IF h.ret.kind = "bytes"
                               THEN Text("hex", b2h(h.ret.val))
                               ELSE Raise("TypeError")]
    IN  [self |-> IF is_private(self) THEN self ELSE t.self,
         ret |-> IF Raised(t.ret) THEN t.ret
                 ELSE Return("text", [fmt |-> "repr", private |-> is_private(self),
                                      data |-> t.ret.val])]

(***************************************************************************)
(* Inputs.                                                                 *)
(***************************************************************************)
CurvePoints == {Point(x, y) : x \in 0..(CurveP - 1), y \in 0..(CurveP - 1)}
OnCurve == {pt \in CurvePoints : contains_point(pt[1], pt[2])}

SecretInputs == {Some(s) : s \in (-1)..(CurveN + 1)}

BadPairs ==
    {Infinity, <<Some(Gx), None>>, <<None, Some(Gy)>>,
     Point(Gx, Gy + 1), Point(0, 0)}

PairInputs == OnCurve \cup BadPairs

\* The (secret_exponent, public_pair) arguments of a constructor call:
\* neither, one of the two, or both.
CtorArgs ==
    {<<None, None>>}
      \cup {<<se, None>> : se \in SecretInputs}
      \cup {<<None, pp>> : pp \in PairInputs}
      \cup {<<se, pp>> : se \in {Some(0), Some(1)},
                         pp \in {BasePoint, Point(0, 0)}}

\* The arguments the Keys of Init are constructed from.
InitArgs ==
    {<<Some(s), None>> : s \in {1, CurveN - 1}}
      \cup {<<None, pp>> : pp \in {BasePoint, GeneratorMul(3)}}

ValidSecs == {public_pair_to_sec(pt, c) : pt \in OnCurve, c \in BOOLEAN}

SecInputs ==
    ValidSecs
      \cup {<<>>, <<4>>, <<2, 0>>, <<2, 0, 7, 0>>, <<5, 0, 7>>,
            <<6, 0, 7, 0, 5>>, <<2, 0, 7, 0, 5>>, <<4, 0, 7>>,
            <<2, 0, 9>>, <<3, 0, 0>>,
            <<4, 0, 7, 0, 6>>, <<4, 0, 0, 0, 0>>, <<4, 0, 7, 1, 5>>,
            <<4, 0, 7, 0, 5, 0>>}

Digests == {<<0, 3>>, <<1, 2>>}

SigInputs ==
    {sigencode_der(1, 5), sigencode_der(4, 5), sigencode_der(0, 3)}
      \cup {<<>>, <<48, 6, 2, 1, 1, 2, 1>>, <<49, 6, 2, 1, 1, 2, 1, 5>>}

(***************************************************************************)
(* Actions.  keys is the heap of constructed Keys, last the latest call    *)
(* with its arguments and its outcome.                                     *)
(***************************************************************************)
Idle == [op |-> "none"]

\* class_(secret_exponent=..., public_pair=..., is_compressed=...)
New(class, secret_exponent, public_pair, is_compressed) ==
    /\ last' = [op |-> "init", class |-> class,
                secret_exponent |-> secret_exponent,
                public_pair |-> public_pair,
                is_compressed |-> is_compressed,
                ret |-> Key_init(class, secret_exponent, public_pair, is_compressed)]
    /\ UNCHANGED <<keys, pc, frame>>

\* class_.from_sec(sec)
FromSec(class, s) ==
    /\ last' = [op |-> "from_sec", class |-> class, sec |-> s,
                ret |-> from_sec(class, s)]
    /\ UNCHANGED <<keys, pc, frame>>

\* A method that reads the Key and returns a value.
Call(i, op, is_compressed, r) ==
    /\ last' = [op |-> op, self |-> i, is_compressed |-> is_compressed, ret |-> r]
    /\ UNCHANGED <<pc, frame>>

Sec(i, is_compressed) ==
    /\ Call(i, "sec", is_compressed, Key_sec(keys[i], is_compressed))
    /\ UNCHANGED keys

SecAsHex(i, is_compressed) ==
    /\ Call(i, "sec_as_hex", is_compressed, Key_sec_as_hex(keys[i], is_compressed))
    /\ UNCHANGED keys

Wif(i, is_compressed) ==
    /\ Call(i, "wif", is_compressed, Key_wif(keys[i], is_compressed))
    /\ UNCHANGED keys

Hash160(i, is_compressed) ==
    LET r == Key_hash160(keys[i], is_compressed)
    IN  /\ Call(i, "hash160", is_compressed, r.ret)
        /\ keys' = [keys EXCEPT ![i] = r.self]

Fingerprint(i, is_compressed) ==
    LET r == Key_fingerprint(keys[i], is_compressed)
    IN  /\ Call(i, "fingerprint", is_compressed, r.ret)
        /\ keys' = [keys EXCEPT ![i] = r.self]

Address(i, is_compressed) ==
    LET r == Key_address(keys[i], is_compressed)
    IN  /\ Call(i, "address", is_compressed, r.ret)
        /\ keys' = [keys EXCEPT ![i] = r.self]

AsText(i) ==
    LET r == Key_as_text(keys[i])
    IN  /\ Call(i, "as_text", None, r.ret)
        /\ keys' = [keys EXCEPT ![i] = r.self]

Repr(i) ==
    LET r == Key_repr(keys[i])
    IN  /\ Call(i, "repr", None, r.ret)
        /\ keys' = [keys EXCEPT ![i] = r.self]

\* public_copy: self when self is public, else a new Key.
PublicCopy(i) ==
    /\ IF ~is_private(keys[i])
       THEN /\ keys' = keys
            /\ last' = [op |-> "public_copy", self |-> i, ref |-> i,
                        ret |-> Return("Key", keys[i])]
       ELSE /\ Len(keys) < MaxKeys
            /\ LET r == Key_public_copy(keys[i])
               IN  /\ keys' = IF r.kind = "Key" THEN Append(keys, r.val) ELSE keys
                   /\ last' = [op |-> "public_copy", self |-> i,
                               ref |-> IF r.kind = "Key" THEN Len(keys) + 1 ELSE 0,
                               ret |-> r]
    /\ UNCHANGED <<pc, frame>>

\* subkey / subkey_for_path: self.
Subkey(i) ==
    /\ keys' = keys
    /\ last' = [op |-> "subkey", self |-> i, ref |-> i,
                ret |-> Return("Key", keys[i])]
    /\ UNCHANGED <<pc, frame>>

Sign(i, h) ==
    /\ keys' = keys
    /\ last' = [op |-> "sign", self |-> i, h |-> h, ret |-> Key_sign(keys[i], h)]
    /\ UNCHANGED <<pc, frame>>

Verify(i, h, sig) ==
    /\ keys' = keys
    /\ last' = [op |-> "verify", self |-> i, h |-> h, sig |-> sig,
                ret |-> Key_verify(keys[i], h, sig)]
    /\ UNCHANGED <<pc, frame>>

(***************************************************************************)
(* The state after a successful construction: one Key on the heap, the     *)
(* constructor call as the latest call.                                    *)
(***************************************************************************)
Constructed(argset) ==
    /\ \E class \in Classes, args \in argset, ic \in BOOLEAN :
          LET r == Key_init(class, args[1], args[2], ic)
          IN  /\ r.kind = "Key"
              /\ keys = <<r.val>>
              /\ last = [op |-> "init", class |-> class,
                         secret_exponent |-> args[1], public_pair |-> args[2],
                         is_compressed |-> ic, ret |-> r]

(***************************************************************************)
(* SpecNew: construction and decoding.  The constructor and from_sec are   *)
(* functions of their arguments: the Key they return is held in last.      *)
(***************************************************************************)
InitNew ==
    /\ Constructed(CtorArgs)
    /\ pc = <<>>
    /\ frame = <<>>

NextNew ==
    \/ \E class \in Classes, args \in CtorArgs, ic \in BOOLEAN :
          New(class, args[1], args[2], ic)
    \/ \E s \in SecInputs, class \in Classes : FromSec(class, s)
    \/ \E i \in 1..Len(keys) : PublicCopy(i)

SpecNew == InitNew /\ [][NextNew]_vars

(***************************************************************************)
(* Spec: the life of constructed Keys under their methods.                 *)
(***************************************************************************)
Init ==
    /\ Constructed(InitArgs)
    /\ pc = <<>>
    /\ frame = <<>>

Next ==
    \/ \E i \in 1..Len(keys), ov \in Overrides : Sec(i, ov)
    \/ \E i \in 1..Len(keys), ov \in Overrides : SecAsHex(i, ov)
    \/ \E i \in 1..Len(keys), ov \in Overrides : Wif(i, ov)
    \/ \E i \in 1..Len(keys), ov \in Overrides : Hash160(i, ov)
    \/ \E i \in 1..Len(keys), ov \in Overrides : Fingerprint(i, ov)
    \/ \E i \in 1..Len(keys), ov \in Overrides : Address(i, ov)
    \/ \E i \in 1..Len(keys) : AsText(i)
    \/ \E i \in 1..Len(keys) : Repr(i)
    \/ \E i \in 1..Len(keys) : PublicCopy(i)
    \/ \E i \in 1..Len(keys) : Subkey(i)
    \/ \E i \in 1..Len(keys), h \in Digests : Sign(i, h)
    \/ \E i \in 1..Len(keys), h \in Digests, sig \in SigInputs : Verify(i, h, sig)

Spec == Init /\ [][Next]_vars

(***************************************************************************)
(* SpecConc: threads calling hash160 on one Key (keys[1]), directly or     *)
(* through fingerprint or address.  A thread runs the method one step at a *)
(* time: the test of the slot, the computation of the digest, the store    *)
(* into the slot and the read of the slot for the return value.  An        *)
(* attribute store rebinds a reference: it is one step.                    *)
(***************************************************************************)
Threads == 1..MaxThreads
Vias == {"hash160", "fingerprint", "address"}

NoFrame == [via |-> "none", is_compressed |-> FALSE, digest |-> None,
            ret |-> Return("None", None)]

\* "if self._hash160_compressed is None:" (and the uncompressed twin)
AfterCheck(self, c) == IF Slot(self, c) = None THEN "compute" ELSE "return"

\* Mutant: the call returns the digest it computed itself, if it did.
ReadBack_Local(self, fr) == SlotValue(fr.digest)

\* "return self._hash160_compressed" (and the uncompressed twin)
ReadBack(self, fr) == SlotValue(Slot(self, fr.is_compressed))

\* What the caller gets from the method it called.
Through(via, h) ==
    CASE via = "fingerprint" -> FingerprintOf(h)
      [] via = "address" -> AddressOf(h)
      [] OTHER -> h

Enter(t, via, is_compressed) ==
    /\ pc[t] = "idle"
    /\ pc' = [pc EXCEPT ![t] = "check"]
    /\ frame' = [frame EXCEPT ![t] =
                    [via |-> via,
                     is_compressed |-> Effective(keys[1], is_compressed),
                     digest |-> None, ret |-> Return("None", None)]]
    /\ UNCHANGED <<keys, last>>

Check(t) ==
    /\ pc[t] = "check"
    /\ pc' = [pc EXCEPT ![t] = AfterCheck(keys[1], frame[t].is_compressed)]
    /\ UNCHANGED <<keys, last, frame>>

Compute(t) ==
    /\ pc[t] = "compute"
    /\ frame' = [frame EXCEPT ![t].digest =
                    Some(Digest(keys[1], frame[t].is_compressed))]
    /\ pc' = [pc EXCEPT ![t] = "store"]
    /\ UNCHANGED <<keys, last>>

StoreDigest(t) ==
    /\ pc[t] = "store"
    /\ keys' = [keys EXCEPT ![1] =
                   SetSlot(keys[1], frame[t].is_compressed, frame[t].digest)]
    /\ pc' = [pc EXCEPT ![t] = "return"]
    /\ UNCHANGED <<last, frame>>

ReturnDigest(t) ==
    /\ pc[t] = "return"
    /\ frame' = [frame EXCEPT ![t].ret =
                    Through(frame[t].via, ReadBack(keys[1], frame[t]))]
    /\ pc' = [pc EXCEPT ![t] = "done"]
    /\ UNCHANGED <<keys, last>>

Leave(t) ==
    /\ pc[t] = "done"
    /\ pc' = [pc EXCEPT ![t] = "idle"]
    /\ frame' = [frame EXCEPT ![t] = NoFrame]
    /\ UNCHANGED <<keys, last>>

\* The arguments the Key the threads share is constructed from.
ConcArgs == {<<Some(2), None>>, <<None, GeneratorMul(3)>>}

InitConc ==
    /\ Constructed(ConcArgs)
    /\ pc = [t \in Threads |-> "idle"]
    /\ frame = [t \in Threads |-> NoFrame]

NextConc ==
    \/ \E t \in Threads, via \in Vias, ov \in Overrides : Enter(t, via, ov)
    \/ \E t \in Threads : Check(t)
    \/ \E t \in Threads : Compute(t)
    \/ \E t \in Threads : StoreDigest(t)
    \/ \E t \in Threads : ReturnDigest(t)
    \/ \E t \in Threads : Leave(t)

SpecConc == InitConc /\ [][NextConc]_vars

(***************************************************************************)
(* The properties.                                                         *)
(***************************************************************************)
TypeOK ==
    \A i \in 1..Len(keys) :
        /\ keys[i].public_pair \in OnCurve
        /\ keys[i].is_compressed \in BOOLEAN

\* C1: verify(h, sig) returns a boolean and never raises: a signature the
\* codec cannot decode makes verify return false.
C1_VerifyNeverRaises ==
    last.op = "verify" =>
        /\ last.ret.kind = "bool"
        /\ (Raised(sigdecode_der(last.sig)) => last.ret = Return("bool", FALSE))

\* The byte strings that represent no point of the curve, by the way they
\* fail.
BadTagOrLength(s) ==
    \/ Len(s) = 0
    \/ s[1] \notin {2, 3, 4}
    \/ s[1] = 4 /\ Len(s) # 1 + 2 * CoordLen
    \/ s[1] \in {2, 3} /\ Len(s) # 1 + CoordLen

NoCurveSolution(s) ==
    /\ Len(s) = 1 + CoordLen
    /\ s[1] \in {2, 3}
    /\ points_for_x(from_bytes_32(SubSeq(s, 2, Len(s))), s[1] = 3) = None

OffCurvePair(s) ==
    /\ Len(s) = 1 + 2 * CoordLen
    /\ s[1] = 4
    /\ ~contains_point(Some(from_bytes_32(SubSeq(s, 2, 1 + CoordLen))),
                       Some(from_bytes_32(SubSeq(s, 2 + CoordLen, Len(s)))))

NotAPoint(s) == BadTagOrLength(s) \/ NoCurveSolution(s) \/ OffCurvePair(s)

\* C2: for every byte string that represents no point of the curve (unknown
\* tag, wrong length, compressed x with no curve solution, uncompressed pair
\* off the curve), from_sec on any class fails with the one decode error
\* InvalidEncoding and returns no Key.
C2_OneDecodeError ==
    (last.op = "from_sec" /\ NotAPoint(last.sec))
        => last.ret = Raise("InvalidEncoding")

\* C3: for a Key constructed from a scalar, from_sec(key.sec(c)) on the
\* Key's own class returns a Key with the same public pair and with
\* is_compressed = c, for either style c.
C3_SecRoundTrip ==
    \A i \in 1..Len(keys), c \in BOOLEAN :
        (/\ is_private(keys[i])
         /\ last.op = "from_sec"
         /\ last.class = keys[i].class
         /\ last.sec = Key_sec(keys[i], Some(c)).val)
            => /\ last.ret.kind = "Key"
               /\ last.ret.val.public_pair = keys[i].public_pair
               /\ last.ret.val.is_compressed = c

\* The public pair has no absent coordinate and is on the curve.
ValidPair(pair) ==
    /\ pair[1] # None
    /\ pair[2] # None
    /\ contains_point(pair[1], pair[2])

\* C4: every Key construction returns (from a scalar, from a pair, from
\* from_sec, from public_copy) has a public pair with no absent coordinate
\* that is on the curve; a supplied pair that is not makes construction
\* fail with InvalidPublicPairError.
C4_PublicPairOnCurve ==
    /\ \A i \in 1..Len(keys) : ValidPair(keys[i].public_pair)
    /\ (last.op \in {"init", "from_sec", "public_copy"} /\ last.ret.kind = "Key"
           => ValidPair(last.ret.val.public_pair))
    /\ (/\ last.op = "init"
        /\ last.secret_exponent = None
        /\ last.public_pair # None
        /\ ~ValidPair(last.public_pair))
           => last.ret = Raise("InvalidPublicPairError")

C4_Witness ==
    /\ last.op = "init"
    /\ last.secret_exponent = None
    /\ last.public_pair = Infinity
    /\ last.ret = Raise("InvalidPublicPairError")

\* C5: a supplied scalar s with s < 1 or s >= order makes construction fail
\* with InvalidSecretExponentError; with 1 <= s < order the Key's public
\* pair is s times the base point.
C5_SecretExponentRange ==
    (last.op = "init" /\ last.secret_exponent # None /\ last.public_pair = None)
        => LET s == Val(last.secret_exponent)
           IN  IF s < 1 \/ s >= CurveN
               THEN last.ret = Raise("InvalidSecretExponentError")
               ELSE /\ last.ret.kind = "Key"
                    /\ last.ret.val.secret_exponent = Some(s)
                    /\ last.ret.val.public_pair = PointMul(s, BasePoint)

C5_Witness ==
    /\ last.op = "init"
    /\ last.secret_exponent = Some(CurveN)
    /\ last.public_pair = None
    /\ last.ret = Raise("InvalidSecretExponentError")

\* C6: construction with both or with neither of secret_exponent and
\* public_pair fails with ValueError whatever the values; with exactly one
\* it goes on to the other checks.
C6_ExactlyOneArgument ==
    last.op = "init"
        => LET given == (IF last.secret_exponent = None THEN 0 ELSE 1)
                          + (IF last.public_pair = None THEN 0 ELSE 1)
           IN  (given # 1) <=> (last.ret = Raise("ValueError"))

C6_Witness ==
    /\ last.op = "init"
    /\ last.secret_exponent = Some(0)
    /\ last.public_pair = Point(0, 0)
    /\ last.ret = Raise("ValueError")

\* C7: public_copy of a private Key is a new Key with no secret exponent,
\* the same public pair and is_compressed, whose sign raises for every
\* digest, while the original keeps its scalar and still signs;
\* public_copy of a public Key is that Key; sign on a Key with no secret
\* exponent raises RuntimeError.
C7_PublicCopy ==
    /\ (last.op = "public_copy" /\ is_private(keys[last.self]))
          => /\ last.ret.kind = "Key"
             /\ last.ref # last.self
             /\ keys[last.ref] = last.ret.val
             /\ last.ret.val.secret_exponent = None
             /\ last.ret.val.public_pair = keys[last.self].public_pair
             /\ last.ret.val.is_compressed = keys[last.self].is_compressed
             /\ \A h \in Digests :
                   /\ Key_sign(last.ret.val, h) = Raise("RuntimeError")
                   /\ Key_sign(keys[last.self], h).kind = "bytes"
    /\ (last.op = "public_copy" /\ ~is_private(keys[last.self]))
          => last.ref = last.self /\ last.ret.val = keys[last.self]
    /\ last.op = "sign"
          => IF keys[last.self].secret_exponent = None
             THEN last.ret = Raise("RuntimeError")
             ELSE last.ret.kind = "bytes"

C7_Witness ==
    /\ Len(keys) = 2
    /\ last.op = "sign"
    /\ last.self = 2
    /\ is_private(keys[1])
    /\ last.ret = Raise("RuntimeError")

\* C8: no method call changes a Key's secret exponent, public pair or
\* is_compressed flag (nor its class); Keys stay on the heap.
C8_Frame ==
    [][\A i \in 1..Len(keys) :
          /\ Len(keys') >= i
          /\ keys'[i].secret_exponent = keys[i].secret_exponent
          /\ keys'[i].public_pair = keys[i].public_pair
          /\ keys'[i].is_compressed = keys[i].is_compressed
          /\ keys'[i].class = keys[i].class]_vars

C8_Witness ==
    /\ last.op = "address"
    /\ last.is_compressed = Some(~keys[last.self].is_compressed)
    /\ keys[last.self].hash160_compressed # None
    /\ keys[last.self].hash160_uncompressed # None

\* The digest of a Key's encoding in style c.
ExpectedDigest(self, c) == hash160(public_pair_to_sec(self.public_pair, c))

\* C9: a cache slot is empty or holds hash160 of the encoding of its own
\* style; hash160(c) returns the digest of the effective style; and
\* fingerprint(c) its first 4 bytes.
C9_CacheCoherent ==
    /\ \A i \in 1..Len(keys), c \in BOOLEAN :
          Slot(keys[i], c) \in {None, Some(ExpectedDigest(keys[i], c))}
    /\ last.op = "hash160"
          => last.ret = Return("bytes",
                 ExpectedDigest(keys[last.self],
                                Effective(keys[last.self], last.is_compressed)))
    /\ last.op = "fingerprint"
          => last.ret = Return("bytes",
                 SubSeq(ExpectedDigest(keys[last.self],
                                       Effective(keys[last.self], last.is_compressed)),
                        1, 4))

C9_Witness ==
    /\ last.op = "fingerprint"
    /\ last.is_compressed = Some(~keys[last.self].is_compressed)
    /\ keys[last.self].hash160_compressed # None
    /\ keys[last.self].hash160_uncompressed # None
    /\ keys[last.self].hash160_compressed # keys[last.self].hash160_uncompressed

\* C10: under every interleaving of the threads' steps, a call returns the
\* whole digest of the style it asked for (its first 4 bytes through
\* fingerprint, its address through address), no call reads an empty slot
\* back, and a slot never holds anything but the digest of its style.
C10_ConcurrentCalls ==
    /\ \A c \in BOOLEAN :
          Slot(keys[1], c) \in {None, Some(ExpectedDigest(keys[1], c))}
    /\ \A t \in Threads :
          /\ pc[t] = "return" => Slot(keys[1], frame[t].is_compressed) # None
          /\ pc[t] = "done"
                => LET d == ExpectedDigest(keys[1], frame[t].is_compressed)
                   IN  frame[t].ret =
                          CASE frame[t].via = "fingerprint"
                                  -> Return("bytes", SubSeq(d, 1, 4))
                            [] frame[t].via = "address"
                                  -> Return("text", [fmt |-> "address", data |-> d])
                            [] OTHER -> Return("bytes", d)

\* Two threads computed the digest of one style: one has returned, the
\* other is about to store over the filled slot.
C10_Witness ==
    \E t, u \in Threads :
        /\ pc[t] = "done"
        /\ pc[u] = "store"
        /\ frame[t].is_compressed = frame[u].is_compressed
        /\ frame[t].digest # None
====
